---- MODULE Spec2Model ----
(***************************************************************************)
(* Model of har_cleaner.py: the URL classifier (is_interesting_url), the   *)
(* entry extractor (extract_interesting_content) and the batch run         *)
(* (clean_har_file).                                                       *)
(*                                                                         *)
(* Python values are modelled as tagged records:                           *)
(*   str   [t |-> "str", head |-> <<characters>>, fill |-> n]              *)
(*         the characters of head followed by n spaces (so that texts of   *)
(*         10,000 characters are representable)                            *)
(*   int   [t |-> "int", v |-> n]      None  [t |-> "null"]                *)
(*   bool  [t |-> "bool", v |-> b]                                         *)
(*   list  [t |-> "list", v |-> <<values>>]                                *)
(*   dict  [t |-> "dict", v |-> [key set -> values]]                       *)
(* HAR entries and the records the program builds are TLA+ functions from  *)
(* key strings to values, so that  'k' in d  is  k \in DOMAIN d.           *)
(***************************************************************************)
EXTENDS Integers, Sequences, FiniteSets, TLC

VARIABLES
    url, verdict, upc,                 \* classifier run
    entry, extracted, xpc,             \* extractor run
    input, pc, har_data, cleaned_entries, cleaned_har, outfile, err
                                       \* clean_har_file run

vars == <<url, verdict, upc, entry, extracted, xpc,
          input, pc, har_data, cleaned_entries, cleaned_har, outfile, err>>

urlVars == <<url, verdict, upc>>
extractVars == <<entry, extracted, xpc>>
runVars == <<input, pc, har_data, cleaned_entries, cleaned_har, outfile, err>>

(***************************************************************************)
(* Bounds                                                                  *)
(***************************************************************************)
MaxFrags == 3
MaxMsgs == 2
MaxEntries == 10

(***************************************************************************)
(* Characters and case folding (re.IGNORECASE)                             *)
(***************************************************************************)
Chars(s) == [i \in 1..Len(s) |-> SubSeq(s, i, i)]

UpperCase == Chars("ABCDEFGHIJKLMNOPQRSTUVWXYZ")
LowerCase == Chars("abcdefghijklmnopqrstuvwxyz")

LowerTable ==
    [c \in {UpperCase[i] : i \in 1..26} |->
        LowerCase[CHOOSE i \in 1..26 : UpperCase[i] = c]]

Lower(c) == IF c \in DOMAIN LowerTable THEN LowerTable[c] ELSE c

Fold(s) == [k \in 1..Len(s) |-> Lower(s[k])]

(***************************************************************************)
(* The regular expressions of is_interesting_url.  Every pattern of the    *)
(* program is a literal, a literal followed by $, or two literals joined   *)
(* by .* ; a pattern is the sequence of its literals and the $ flag.       *)
(***************************************************************************)
(* The literals are kept case-folded, as the subject string is when matched. *)
Lit(s) == [lits |-> <<Fold(Chars(s))>>, eol |-> FALSE]
LitEnd(s) == [lits |-> <<Fold(Chars(s))>>, eol |-> TRUE]
LitAnyLit(s, t) == [lits |-> <<Fold(Chars(s)), Fold(Chars(t))>>, eol |-> FALSE]

interesting_patterns == <<
    Lit("rtm-mcp-server.vcto-6e7.workers.dev"),
    Lit("anthropic.com"),
    LitAnyLit("/api/", "/chat"),
    LitAnyLit("/api/", "/mcp/"),
    LitAnyLit("wss://", "mcp") >>

noise_patterns == <<
    LitEnd(".js"), LitEnd(".css"), LitEnd(".png"), LitEnd(".jpg"), LitEnd(".ico"),
    Lit("/_next/"), Lit("/static/"), Lit("/assets/"),
    Lit("intercom.io"), Lit("amplitude.com"), Lit("google"), Lit("gtag"),
    Lit("fonts.googleapis.com"), Lit("wix"), Lit("SearchWix") >>

\* the (folded) literal lit occurs in s at position i, ignoring case
MatchAt(lit, s, i) ==
    /\ i >= 1
    /\ i + Len(lit) - 1 <= Len(s)
    /\ \A k \in 1..Len(lit) : lit[k] = Lower(s[i + k - 1])

\* .* spans s[from..to-1]: the dot matches any character but a newline
DotStar(s, from, to) ==
    /\ from <= to
    /\ \A k \in from..(to - 1) : s[k] # "\n"

\* $ at position e (the position after the match): the end of the string,
\* or just before a newline that ends the string
AtEnd(s, e) ==
    \/ e = Len(s) + 1
    \/ e = Len(s) /\ s[e] = "\n"

\* re.search(pattern, s, re.IGNORECASE) is not None
re_search(p, s) ==
    \E i \in 1..(Len(s) + 1) :
        /\ MatchAt(p.lits[1], s, i)
        /\ LET e1 == i + Len(p.lits[1])
           IN IF Len(p.lits) = 1
              THEN p.eol => AtEnd(s, e1)
              ELSE \E j \in e1..(Len(s) + 1) :
                      /\ DotStar(s, e1, j)
                      /\ MatchAt(p.lits[2], s, j)
                      /\ p.eol => AtEnd(s, j + Len(p.lits[2]))

(***************************************************************************)
(* is_interesting_url: the noise loop, then the interest loop              *)
(***************************************************************************)
RECURSIVE ScanInteresting(_, _)
ScanInteresting(u, i) ==
    IF i > Len(interesting_patterns) THEN FALSE
    ELSE IF re_search(interesting_patterns[i], u) THEN TRUE
    ELSE ScanInteresting(u, i + 1)

RECURSIVE ScanNoise(_, _)
ScanNoise(u, i) ==
    IF i > Len(noise_patterns) THEN ScanInteresting(u, 1)
    ELSE IF re_search(noise_patterns[i], u) THEN FALSE
    ELSE ScanNoise(u, i + 1)

\* the bug of testing the interest patterns before the noise patterns
is_interesting_url_InterestFirst(u) ==
    \/ \E i \in 1..Len(interesting_patterns) : re_search(interesting_patterns[i], u)
    \/ FALSE

is_interesting_url(u) == ScanNoise(u, 1)

(***************************************************************************)
(* Python values                                                           *)
(***************************************************************************)
PyStr(head, fill) == [t |-> "str", head |-> head, fill |-> fill]
PyText(s) == PyStr(Chars(s), 0)
PyNone == [t |-> "null"]
PyInt(n) == [t |-> "int", v |-> n]
PyBool(b) == [t |-> "bool", v |-> b]
PyFloat(lexeme) == [t |-> "float", lex |-> lexeme]
PyList(items) == [t |-> "list", v |-> items]
PyDict(f) == [t |-> "dict", v |-> f]

\* len(x) of a str
StrLen(x) == Len(x.head) + x.fill

\* bool(x): the truth value Python gives a value in an if
Truthy(x) ==
    CASE x.t = "str" -> StrLen(x) > 0
      [] x.t = "null" -> FALSE
      [] x.t = "int" -> x.v # 0
      [] x.t = "bool" -> x.v
      [] x.t = "list" -> Len(x.v) > 0
      [] x.t = "dict" -> DOMAIN x.v # {}
      [] OTHER -> TRUE

(***************************************************************************)
(* json.loads.  A parse result is [ok, val, end]: end is the position      *)
(* after the value.  The decoder is the standard library's: whitespace,    *)
(* strings with the one-character escapes (\uXXXX is not modelled), the    *)
(* literals, numbers, arrays and objects.                                  *)
(***************************************************************************)
Whitespace == {" ", "\t", "\n", "\r"}
Digits == Chars("0123456789")
DigitSet == {Digits[i] : i \in 1..10}
DigitVal(c) == (CHOOSE i \in 1..10 : Digits[i] = c) - 1

Fail == [ok |-> FALSE]
Ok(v, e) == [ok |-> TRUE, val |-> v, end |-> e]

RECURSIVE SkipWs(_, _)
SkipWs(s, i) ==
    IF i <= Len(s) /\ s[i] \in Whitespace THEN SkipWs(s, i + 1) ELSE i

\* s[i..] starts with the characters of w
StartsWith(s, i, w) ==
    /\ i + Len(w) - 1 <= Len(s)
    /\ \A k \in 1..Len(w) : s[i + k - 1] = w[k]

Unescape(c) ==
    CASE c = "n" -> "\n"
      [] c = "t" -> "\t"
      [] c = "r" -> "\r"
      [] OTHER -> c

\* the body of a string literal from position j, acc the characters so far
RECURSIVE ScanString(_, _, _)
ScanString(s, j, acc) ==
    IF j > Len(s) THEN Fail
    ELSE IF s[j] = "\"" THEN Ok(acc, j + 1)
    ELSE IF s[j] = "\\" THEN
        IF j + 1 <= Len(s) /\ s[j + 1] \in {"\"", "\\", "/", "n", "t", "r"}
        THEN ScanString(s, j + 2, Append(acc, Unescape(s[j + 1])))
        ELSE Fail
    ELSE IF s[j] \in {"\n", "\t", "\r"} THEN Fail
    ELSE ScanString(s, j + 1, Append(acc, s[j]))

RECURSIVE DigitsEnd(_, _)
DigitsEnd(s, i) ==
    IF i <= Len(s) /\ s[i] \in DigitSet THEN DigitsEnd(s, i + 1) ELSE i

RECURSIVE IntValue(_, _, _)
IntValue(s, i, e) ==
    IF e <= i THEN 0 ELSE 10 * IntValue(s, i, e - 1) + DigitVal(s[e - 1])

\* (-?(?:0|[1-9]\d*))(\.\d+)?([eE][-+]?\d+)? matched at position i: the
\* positions after the sign (d), the integer part (ie), the fraction (fe)
\* and the exponent (xe)
SignEnd(s, i) == IF i <= Len(s) /\ s[i] = "-" THEN i + 1 ELSE i

IntEnd(s, d) == IF d <= Len(s) /\ s[d] = "0" THEN d + 1 ELSE DigitsEnd(s, d)

FracEnd(s, ie) ==
    IF ie + 1 <= Len(s) /\ s[ie] = "." /\ s[ie + 1] \in DigitSet
    THEN DigitsEnd(s, ie + 1) ELSE ie

ExpDigits(s, fe) ==
    IF fe + 1 <= Len(s) /\ s[fe + 1] \in {"+", "-"} THEN fe + 2 ELSE fe + 1

ExpEnd(s, fe, xs) ==
    IF fe <= Len(s) /\ s[fe] \in {"e", "E"} /\ xs <= Len(s) /\ s[xs] \in DigitSet
    THEN DigitsEnd(s, xs) ELSE fe

NumberAt(s, i, d, ie, xe) ==
    IF ie = d THEN Fail
    ELSE IF xe = ie
         THEN Ok(PyInt(IF d = i THEN IntValue(s, d, ie) ELSE 0 - IntValue(s, d, ie)), ie)
         ELSE Ok(PyFloat(SubSeq(s, i, xe - 1)), xe)

NumberFrac(s, i, d, ie, fe) == NumberAt(s, i, d, ie, ExpEnd(s, fe, ExpDigits(s, fe)))
NumberInt(s, i, d, ie) == NumberFrac(s, i, d, ie, FracEnd(s, ie))
NumberSign(s, i, d) == NumberInt(s, i, d, IntEnd(s, d))
ParseNumber(s, i) == NumberSign(s, i, SignEnd(s, i))

\* the number r matched at i, or else NaN, Infinity, -Infinity
NumberOrConstant(s, i, r) ==
    IF r.ok THEN r
    ELSE IF StartsWith(s, i, Chars("NaN")) THEN Ok(PyFloat(Chars("NaN")), i + 3)
    ELSE IF StartsWith(s, i, Chars("Infinity")) THEN Ok(PyFloat(Chars("Infinity")), i + 8)
    ELSE IF StartsWith(s, i, Chars("-Infinity")) THEN Ok(PyFloat(Chars("-Infinity")), i + 9)
    ELSE Fail

StringAt(r) == IF r.ok THEN Ok(PyStr(r.val, 0), r.end) ELSE Fail

RECURSIVE ParseValue(_, _)
RECURSIVE ParseElements(_, _, _)
RECURSIVE ParseMembers(_, _, _)

\* after the element r of an array, at position k: ] ends it, a comma
\* continues it
AfterElement(s, k, items) ==
    IF k > Len(s) THEN Fail
    ELSE IF s[k] = "]" THEN Ok(PyList(items), k + 1)
    ELSE IF s[k] = "," THEN ParseElements(s, SkipWs(s, k + 1), items)
    ELSE Fail

ElementParsed(s, acc, r) ==
    IF ~r.ok THEN Fail ELSE AfterElement(s, SkipWs(s, r.end), Append(acc, r.val))

\* the elements of an array from position i (a value is due), acc so far
ParseElements(s, i, acc) == ElementParsed(s, acc, ParseValue(s, i))

\* after a member of an object, at position k: } ends it, a comma continues
AfterMember(s, k, d) ==
    IF k > Len(s) THEN Fail
    ELSE IF s[k] = "}" THEN Ok(PyDict(d), k + 1)
    ELSE IF s[k] = "," THEN ParseMembers(s, SkipWs(s, k + 1), d)
    ELSE Fail

\* a repeated key keeps its last value
MemberParsed(s, acc, key, r) ==
    IF ~r.ok THEN Fail
    ELSE AfterMember(s, SkipWs(s, r.end),
                     [x \in DOMAIN acc \cup {key} |-> IF x = key THEN r.val ELSE acc[x]])

MemberColon(s, acc, key, c) ==
    IF c > Len(s) \/ s[c] # ":" THEN Fail
    ELSE MemberParsed(s, acc, key, ParseValue(s, SkipWs(s, c + 1)))

MemberKey(s, acc, key) ==
    IF ~key.ok THEN Fail ELSE MemberColon(s, acc, key.val, SkipWs(s, key.end))

\* the members of an object from position i (a key is due), acc so far
ParseMembers(s, i, acc) ==
    IF i > Len(s) \/ s[i] # "\"" THEN Fail
    ELSE MemberKey(s, acc, ScanString(s, i + 1, <<>>))

ObjectAt(s, k) ==
    IF k <= Len(s) /\ s[k] = "}" THEN Ok(PyDict(<<>>), k + 1)
    ELSE ParseMembers(s, k, <<>>)

ArrayAt(s, k) ==
    IF k <= Len(s) /\ s[k] = "]" THEN Ok(PyList(<<>>), k + 1)
    ELSE ParseElements(s, k, <<>>)

ParseValue(s, i) ==
    IF i > Len(s) THEN Fail
    ELSE IF s[i] = "\"" THEN StringAt(ScanString(s, i + 1, <<>>))
    ELSE IF s[i] = "{" THEN ObjectAt(s, SkipWs(s, i + 1))
    ELSE IF s[i] = "[" THEN ArrayAt(s, SkipWs(s, i + 1))
    ELSE IF StartsWith(s, i, Chars("null")) THEN Ok(PyNone, i + 4)
    ELSE IF StartsWith(s, i, Chars("true")) THEN Ok(PyBool(TRUE), i + 4)
    ELSE IF StartsWith(s, i, Chars("false")) THEN Ok(PyBool(FALSE), i + 5)
    ELSE NumberOrConstant(s, i, ParseNumber(s, i))

\* The outcome of a call: the value returned, or the exception raised
Returned(v) == [raised |-> FALSE, value |-> v]
Raised(e) == [raised |-> TRUE, exc |-> e]

\* the document must end (but for whitespace) after the value r
WholeDocument(s, r) ==
    IF r.ok /\ SkipWs(s, r.end) = Len(s) + 1
    THEN Returned(r.val)
    ELSE Raised("JSONDecodeError")

\* json.loads(x): the decoded value, json.JSONDecodeError, or TypeError when
\* x is not a str.  The fill of x is trailing whitespace, so the document is
\* decided by its head.
json_loads(x) ==
    IF x.t # "str" THEN Raised("TypeError")
    ELSE WholeDocument(x.head, ParseValue(x.head, SkipWs(x.head, 1)))

(***************************************************************************)
(* extract_interesting_content                                             *)
(***************************************************************************)
SizeLimit == 10000

\* d.get(k, default)
Get(d, k, default) == IF k \in DOMAIN d THEN d[k] ELSE default

\* entry['request']['url'] ... entry['startedDateTime'] can be read
HasRequiredKeys(e) ==
    /\ {"request", "response", "startedDateTime"} \subseteq DOMAIN e
    /\ {"url", "method"} \subseteq DOMAIN e["request"]
    /\ "status" \in DOMAIN e["response"]

\* the request body: the decoded value r, or the raw text when the text does
\* not decode
\* (the bug of the response's size test applied to the request as well)
StoreRequest_WithLimit(ce, text, r) ==
    IF ~r.raised THEN Returned(("requestBody" :> r.value) @@ ce)
    ELSE IF r.exc = "JSONDecodeError"
         THEN IF StrLen(text) < SizeLimit
              THEN Returned(("requestBody" :> text) @@ ce)
              ELSE Returned(ce)
    ELSE r

StoreRequest(ce, text, r) ==
    IF ~r.raised THEN Returned(("requestBody" :> r.value) @@ ce)
    ELSE IF r.exc = "JSONDecodeError" THEN Returned(("requestBody" :> text) @@ ce)
    ELSE r

RequestStep(e, ce) ==
    IF "postData" \in DOMAIN e["request"] /\ "text" \in DOMAIN e["request"]["postData"]
    THEN StoreRequest(ce, e["request"]["postData"]["text"],
                      json_loads(e["request"]["postData"]["text"]))
    ELSE Returned(ce)

\* the response body: the decoded value r, or the raw text when the text does
\* not decode and is shorter than SizeLimit
\* (the bug of keeping the raw text whatever its length)
StoreResponse_NoLimit(ce, response_text, r) ==
    IF ~r.raised THEN Returned(("responseBody" :> r.value) @@ ce)
    ELSE IF r.exc = "JSONDecodeError"
         THEN Returned(("responseBody" :> response_text) @@ ce)
    ELSE r

StoreResponse(ce, response_text, r) ==
    IF ~r.raised THEN Returned(("responseBody" :> r.value) @@ ce)
    ELSE IF r.exc = "JSONDecodeError"
         THEN IF StrLen(response_text) < SizeLimit
              THEN Returned(("responseBody" :> response_text) @@ ce)
              ELSE Returned(ce)
    ELSE r

\* skipped when the text is falsy
ResponseStep(e, ce) ==
    IF "content" \in DOMAIN e["response"] /\ "text" \in DOMAIN e["response"]["content"]
    THEN IF Truthy(e["response"]["content"]["text"])
         THEN StoreResponse(ce, e["response"]["content"]["text"],
                            json_loads(e["response"]["content"]["text"]))
         ELSE Returned(ce)
    ELSE Returned(ce)

NormalizedMessage(msg, data) ==
    [type |-> Get(msg, "type", PyText("unknown")),
     time |-> Get(msg, "time", PyText("")),
     data |-> data]

RECURSIVE ScanMessages(_, _, _)

\* the message msgs[i] has a data field and json.loads gave r for it
MessageDecoded(msgs, i, messages, r) ==
    IF ~r.raised
    THEN ScanMessages(msgs, i + 1,
                      Append(messages, NormalizedMessage(msgs[i], r.value)))
    ELSE IF r.exc = "JSONDecodeError"
         THEN ScanMessages(msgs, i + 1,
                  Append(messages,
                         NormalizedMessage(msgs[i], Get(msgs[i], "data", PyText("")))))
    ELSE r

\* the loop over entry['_webSocketMessages'] from message i, messages so far
ScanMessages(msgs, i, messages) ==
    IF i > Len(msgs) THEN Returned(messages)
    ELSE IF "data" \in DOMAIN msgs[i]
         THEN MessageDecoded(msgs, i, messages, json_loads(msgs[i]["data"]))
         ELSE ScanMessages(msgs, i + 1, messages)

\* if messages: cleaned_entry['webSocketMessages'] = messages
StoreMessages(ce, r) ==
    IF r.raised THEN r
    ELSE IF r.value # <<>> THEN Returned(("webSocketMessages" :> r.value) @@ ce)
    ELSE Returned(ce)

MessagesStep(e, ce) ==
    IF "_webSocketMessages" \in DOMAIN e
    THEN StoreMessages(ce, ScanMessages(e["_webSocketMessages"], 1, <<>>))
    ELSE Returned(ce)

AfterResponse(e, r2) == IF r2.raised THEN r2 ELSE MessagesStep(e, r2.value)

AfterRequest(e, r1) ==
    IF r1.raised THEN r1 ELSE AfterResponse(e, ResponseStep(e, r1.value))

extract_interesting_content(e) ==
    IF ~HasRequiredKeys(e) THEN Raised("KeyError")
    ELSE AfterRequest(e, RequestStep(e,
             [url |-> e["request"]["url"],
              method |-> e["request"]["method"],
              status |-> e["response"]["status"],
              startedDateTime |-> e["startedDateTime"]]))

(***************************************************************************)
(* Classifier run: a URL built from at most MaxFrags fragments             *)
(***************************************************************************)
Fragments == {
    Chars("https://Anthropic.COM"), Chars("/api/v1"), Chars("/chat"),
    Chars("/app.js"), Chars("/static/"), Chars("wss://"), Chars("mcp"),
    Chars("\n"), Chars("example.com") }

RECURSIVE Concat(_)
Concat(ss) == IF ss = <<>> THEN <<>> ELSE Head(ss) \o Concat(Tail(ss))

Urls == { Concat(fs) : fs \in UNION { [1..n -> Fragments] : n \in 0..MaxFrags } }

Idle == "idle"

UrlIdle == url = Idle /\ verdict = Idle /\ upc = Idle
ExtractIdle == entry = Idle /\ extracted = Idle /\ xpc = Idle
RunIdle ==
    /\ input = Idle /\ pc = Idle /\ har_data = Idle /\ cleaned_entries = Idle
    /\ cleaned_har = Idle /\ outfile = Idle /\ err = Idle

InitUrl ==
    /\ url \in Urls
    /\ verdict = "none"
    /\ upc = "call"
    /\ ExtractIdle /\ RunIdle

Classify ==
    /\ upc = "call"
    /\ verdict' = is_interesting_url(url)
    /\ upc' = "returned"
    /\ UNCHANGED <<url, extractVars, runVars>>

NextUrl == Classify

SpecUrl == InitUrl /\ [][NextUrl]_vars

MatchesSome(ps, u) == \E i \in 1..Len(ps) : re_search(ps[i], u)

\* C1: is_interesting_url returns true exactly when the URL matches at least
\* one interest pattern and no noise pattern; a noise match yields false
\* even with an interest match, and a URL matching neither list yields false.
C1_Classifier ==
    upc = "returned" =>
        /\ verdict = (MatchesSome(interesting_patterns, url)
                        /\ ~MatchesSome(noise_patterns, url))
        /\ MatchesSome(noise_patterns, url) => verdict = FALSE
        /\ (~MatchesSome(noise_patterns, url) /\ ~MatchesSome(interesting_patterns, url))
              => verdict = FALSE

\* a URL matching both lists has been classified (noise precedence)
C1_Witness ==
    /\ upc = "returned"
    /\ MatchesSome(interesting_patterns, url)
    /\ MatchesSome(noise_patterns, url)
    /\ verdict = FALSE

(***************************************************************************)
(* Extractor run: an entry that passed the classifier, with every          *)
(* combination of the optional request body, response body and messages    *)
(***************************************************************************)
JsonHead == Chars("{\"x\":1}")
RawHead == Chars("oops")

\* texts: empty, blank, JSON and non-JSON, short and around SizeLimit
Texts ==
    { PyStr(h, f) : h \in {<<>>, JsonHead, RawHead},
                    f \in {0, SizeLimit - 5, SizeLimit - 4} }

\* what a "text" key of the document can hold: a text, or a value that is
\* not a string
TextValues == Texts \cup {PyNone}

PostDataOptions ==
    {<<>>} \cup {[postData |-> <<>>]}
           \cup {[postData |-> [text |-> v]] : v \in TextValues}

ContentOptions ==
    {<<>>} \cup {[content |-> <<>>]}
           \cup {[content |-> [text |-> v]] : v \in TextValues \cup {PyInt(7)}}

MessageSamples == {
    [type |-> PyText("send"), time |-> PyInt(1), data |-> PyStr(JsonHead, 0)],
    [type |-> PyText("receive"), time |-> PyInt(2), data |-> PyStr(RawHead, 0)],
    [type |-> PyText("receive"), time |-> PyInt(3)],
    [data |-> PyStr(RawHead, 0)],
    [data |-> PyStr(JsonHead, 0)],
    [type |-> PyText("send"), time |-> PyInt(4), data |-> PyNone] }

MessagesOptions ==
    {<<>>} \cup { ("_webSocketMessages" :> ms) :
                     ms \in UNION { [1..n -> MessageSamples] : n \in 0..MaxMsgs } }

ChatUrl == Chars("https://anthropic.com/api/v1/chat")

Entries ==
    { mo @@ [request |-> po @@ [url |-> ChatUrl, method |-> "POST"],
             response |-> co @@ [status |-> 200],
             startedDateTime |-> "t1"] :
        po \in PostDataOptions, co \in ContentOptions, mo \in MessagesOptions }

\* every entry of Entries has the URL ChatUrl, which passes the classifier
ChatUrlPasses == is_interesting_url(ChatUrl)

InitExtract ==
    /\ ChatUrlPasses
    /\ entry \in Entries
    /\ extracted = "none"
    /\ xpc = "call"
    /\ UrlIdle /\ RunIdle

Extract ==
    /\ xpc = "call"
    /\ extracted' = extract_interesting_content(entry)
    /\ xpc' = "returned"
    /\ UNCHANGED <<entry, urlVars, runVars>>

NextExtract == Extract

SpecExtract == InitExtract /\ [][NextExtract]_vars

\* the source data of the entry under extraction
HasRequestText == "postData" \in DOMAIN entry["request"]
                    /\ "text" \in DOMAIN entry["request"]["postData"]
RequestText == entry["request"]["postData"]["text"]
HasResponseText == "content" \in DOMAIN entry["response"]
                    /\ "text" \in DOMAIN entry["response"]["content"]
ResponseText == entry["response"]["content"]["text"]
HasMessages == "_webSocketMessages" \in DOMAIN entry
Messages == entry["_webSocketMessages"]

ExtractReturned == xpc = "returned" /\ ~extracted.raised
Record == extracted.value

IsText(v) == v.t = "str"
ValidJson(v) == IsText(v) /\ ~json_loads(v).raised
NonEmpty(v) == IF IsText(v) THEN StrLen(v) > 0 ELSE v # PyNone

\* C3: extract_interesting_content never raises for an entry that passed the
\* classifier, whatever its optional request body, response body and messages.
C3_NeverRaises ==
    xpc = "returned" => ~extracted.raised

\* C4: each optional field of a record is present only when its source data
\* is present and non-empty (an empty body text or message list gives a
\* record without the field).
C4_OptionalOnlyIfNonEmpty ==
    ExtractReturned =>
        /\ "requestBody" \in DOMAIN Record
              => (HasRequestText /\ NonEmpty(RequestText))
        /\ "responseBody" \in DOMAIN Record
              => (HasResponseText /\ NonEmpty(ResponseText))
        /\ "webSocketMessages" \in DOMAIN Record
              => (HasMessages /\ Messages # <<>>)

\* C5: a response text that is not valid JSON is left out of the record when
\* its length is SizeLimit or more and stored unmodified when shorter (and
\* not empty); a response text that is valid JSON is stored decoded, whatever
\* its length.
C5_ResponseBody ==
    (ExtractReturned /\ HasResponseText /\ IsText(ResponseText)) =>
        IF ValidJson(ResponseText)
        THEN /\ "responseBody" \in DOMAIN Record
             /\ Record["responseBody"] = json_loads(ResponseText).value
        ELSE IF StrLen(ResponseText) >= SizeLimit
             THEN "responseBody" \notin DOMAIN Record
        ELSE IF StrLen(ResponseText) > 0
             THEN /\ "responseBody" \in DOMAIN Record
                  /\ Record["responseBody"] = ResponseText
        ELSE TRUE

\* an undecodable response text of exactly SizeLimit characters was dropped
C5_Witness ==
    /\ ExtractReturned /\ HasResponseText /\ IsText(ResponseText)
    /\ ~ValidJson(ResponseText)
    /\ StrLen(ResponseText) = SizeLimit
    /\ "responseBody" \notin DOMAIN Record

\* C6: a request text that is not valid JSON is stored unmodified as
\* requestBody, whatever its length.
C6_RequestBody ==
    (ExtractReturned /\ HasRequestText /\ IsText(RequestText)
       /\ ~ValidJson(RequestText)) =>
        /\ "requestBody" \in DOMAIN Record
        /\ Record["requestBody"] = RequestText

\* an undecodable request text of SizeLimit characters was stored
C6_Witness ==
    /\ ExtractReturned /\ HasRequestText /\ IsText(RequestText)
    /\ ~ValidJson(RequestText)
    /\ StrLen(RequestText) >= SizeLimit
    /\ Record["requestBody"] = RequestText

\* the normalized form C7 describes for a source message
Normalized(msg) ==
    [type |-> IF "type" \in DOMAIN msg THEN msg["type"] ELSE PyText("unknown"),
     time |-> IF "time" \in DOMAIN msg THEN msg["time"] ELSE PyText(""),
     data |-> IF "data" \notin DOMAIN msg THEN PyText("")
              ELSE IF ValidJson(msg["data"]) THEN json_loads(msg["data"]).value
              ELSE msg["data"]]

\* C7: webSocketMessages holds one normalized message per source message, in
\* arrival order; none is dropped or reordered.
C7_AllMessagesKept ==
    (ExtractReturned /\ HasMessages /\ Messages # <<>>) =>
        /\ "webSocketMessages" \in DOMAIN Record
        /\ Len(Record["webSocketMessages"]) = Len(Messages)
        /\ \A i \in 1..Len(Messages) :
              Record["webSocketMessages"][i] = Normalized(Messages[i])

(***************************************************************************)
(* clean_har_file                                                          *)
(***************************************************************************)
FontUrl == Chars("https://fonts.googleapis.com/x.css")

\* the verdicts of the URLs the documents below use, computed once
SampleVerdict == [u \in {ChatUrl, FontUrl} |-> is_interesting_url(u)]
Interesting(u) ==
    IF u \in DOMAIN SampleVerdict THEN SampleVerdict[u] ELSE is_interesting_url(u)

\* if is_interesting_url(url), for the entry e with cleaned_entries acc
\* (the bug of keeping one record per URL)
Keep_OncePerUrl(e, acc) ==
    /\ Interesting(e["request"]["url"])
    /\ \A j \in 1..Len(acc) : acc[j]["url"] # e["request"]["url"]

Keep(e, acc) == Interesting(e["request"]["url"])

RECURSIVE FilterLoop(_, _, _)

\* cleaned_entries.append(cleaned_entry), unless the extraction raised
AppendCleaned(entries, i, acc, r) ==
    IF r.raised THEN r ELSE FilterLoop(entries, i + 1, Append(acc, r.value))

\* the loop of clean_har_file from entry i, cleaned_entries so far
FilterLoop(entries, i, acc) ==
    IF i > Len(entries) THEN Returned(acc)
    ELSE IF "request" \notin DOMAIN entries[i] \/ "url" \notin DOMAIN entries[i]["request"]
         THEN Raised("KeyError")
    ELSE IF Keep(entries[i], acc)
         THEN AppendCleaned(entries, i, acc, extract_interesting_content(entries[i]))
    ELSE FilterLoop(entries, i + 1, acc)

\* the decimal digits of a natural number
RECURSIVE NatChars(_)
NatChars(n) ==
    IF n < 10 THEN <<Digits[n + 1]>> ELSE Append(NatChars(n \div 10), Digits[(n % 10) + 1])

\* p / q rounded to the nearest integer, ties to even: what the format
\* specification .1f does with the tenths of its argument
RoundHalfEven(p, q) ==
    IF 2 * (p % q) > q \/ (2 * (p % q) = q /\ (p \div q) % 2 = 1)
    THEN (p \div q) + 1
    ELSE p \div q

\* (the bug of cutting the digits after the first decimal instead of rounding)
Tenths_Truncated(kept, original) == (1000 * (original - kept)) \div original

\* (1 - kept / original) * 100 in tenths, as .1f prints it
Tenths(kept, original) == RoundHalfEven(1000 * (original - kept), original)

\* t tenths printed with one decimal place and the % sign
FormatPercent(t) == NatChars(t \div 10) \o <<".", Digits[(t % 10) + 1], "%">>

\* f"{(1 - kept / original) * 100:.1f}%", or ZeroDivisionError
\* (the bug of reporting 0.0% for an empty input instead of failing)
reduction_ratio_ZeroGuard(kept, original) ==
    IF original = 0 THEN Returned(Chars("0.0%"))
    ELSE Returned(FormatPercent(Tenths(kept, original)))

reduction_ratio(kept, original) ==
    IF original = 0 THEN Raised("ZeroDivisionError")
    ELSE Returned(FormatPercent(Tenths(kept, original)))

\* the entries of the documents: entry i carries i as its startedDateTime
ChatEntry(i) ==
    [request |-> [url |-> ChatUrl, method |-> "POST",
                  postData |-> [text |-> PyStr(JsonHead, 0)]],
     response |-> [status |-> 200],
     startedDateTime |-> i]
FontEntry(i) ==
    [request |-> [url |-> FontUrl, method |-> "GET"],
     response |-> [status |-> 200],
     startedDateTime |-> i]
\* an entry without the request key
BareEntry(i) == [startedDateTime |-> i]
\* an interesting entry with a message whose data is not a string
NullDataEntry(i) ==
    ("_webSocketMessages" :> <<[type |-> PyText("send"), time |-> PyInt(4), data |-> PyNone]>>)
        @@ ChatEntry(i)

EntrySeqs ==
    { [i \in 1..n |-> IF i \in K THEN ChatEntry(i) ELSE FontEntry(i)] :
         n \in 0..MaxEntries, K \in SUBSET (1..MaxEntries) }

Document(es) == [kind |-> "json", doc |-> [log |-> [entries |-> es]]]

Inputs ==
    { [kind |-> "unreadable"], [kind |-> "notjson"],
      [kind |-> "json", doc |-> <<>>],
      [kind |-> "json", doc |-> [log |-> <<>>]],
      Document(<<ChatEntry(1), BareEntry(2)>>),
      Document(<<ChatEntry(1), NullDataEntry(2)>>) }
    \cup { Document(es) : es \in EntrySeqs }

Untouched == {[state |-> "absent"], [state |-> "old"]}

Init ==
    /\ input \in Inputs
    /\ pc = "start"
    /\ har_data = "none"
    /\ cleaned_entries = "none"
    /\ cleaned_har = "none"
    /\ outfile \in Untouched
    /\ err = "none"
    /\ UrlIdle /\ ExtractIdle

Abort(exc) == pc' = "fatal" /\ err' = exc

\* with open(input_path, 'r') as f: har_data = json.load(f)
ReadInput ==
    /\ pc = "start"
    /\ IF input.kind = "unreadable"
       THEN Abort("FileNotFoundError") /\ UNCHANGED har_data
       ELSE IF input.kind = "notjson"
            THEN Abort("JSONDecodeError") /\ UNCHANGED har_data
            ELSE har_data' = input.doc /\ pc' = "filter" /\ UNCHANGED err
    /\ UNCHANGED <<input, cleaned_entries, cleaned_har, outfile, urlVars, extractVars>>

\* the loop ended with r: the list of records, or an exception
Filtered(r) ==
    IF r.raised
    THEN Abort(r.exc) /\ UNCHANGED cleaned_entries
    ELSE cleaned_entries' = r.value /\ pc' = "build" /\ UNCHANGED err

\* cleaned_entries = [] and the for loop
FilterEntries ==
    /\ pc = "filter"
    /\ IF "log" \notin DOMAIN har_data \/ "entries" \notin DOMAIN har_data["log"]
       THEN Abort("KeyError") /\ UNCHANGED cleaned_entries
       ELSE Filtered(FilterLoop(har_data["log"]["entries"], 1, <<>>))
    /\ UNCHANGED <<input, har_data, cleaned_har, outfile, urlVars, extractVars>>

\* the report with the ratio, unless computing the ratio raised
Built(original, ratio) ==
    IF ratio.raised
    THEN Abort(ratio.exc) /\ UNCHANGED cleaned_har
    ELSE /\ cleaned_har' =
              [version |-> "1.0",
               creator |-> "HAR Cleaner",
               description |-> "Cleaned HAR file containing only interesting API calls and MCP interactions",
               entries |-> cleaned_entries,
               summary |-> [total_entries |-> Len(cleaned_entries),
                            original_entries |-> original,
                            reduction_ratio |-> ratio.value]]
         /\ pc' = "open"
         /\ UNCHANGED err

\* cleaned_har = {...}
BuildReport ==
    /\ pc = "build"
    /\ Built(Len(har_data["log"]["entries"]),
             reduction_ratio(Len(cleaned_entries), Len(har_data["log"]["entries"])))
    /\ UNCHANGED <<input, har_data, cleaned_entries, outfile, urlVars, extractVars>>

\* open(output_path, 'w'): the file is created or truncated, unless the open
\* fails
OpenOutput ==
    /\ pc = "open"
    /\ \/ outfile' = [state |-> "truncated"] /\ pc' = "dump" /\ UNCHANGED err
       \/ Abort("OSError") /\ UNCHANGED outfile
    /\ UNCHANGED <<input, har_data, cleaned_entries, cleaned_har, urlVars, extractVars>>

\* json.dump(cleaned_har, f, ...) into the open file and the close: the whole
\* report is written, or a write fails and leaves what was written so far
DumpReport ==
    /\ pc = "dump"
    /\ \/ /\ outfile' = [state |-> "complete", report |-> cleaned_har]
          /\ pc' = "done"
          /\ UNCHANGED err
       \/ /\ outfile' \in {[state |-> "truncated"], [state |-> "partial"]}
          /\ Abort("OSError")
    /\ UNCHANGED <<input, har_data, cleaned_entries, cleaned_har, urlVars, extractVars>>

Next == ReadInput \/ FilterEntries \/ BuildReport \/ OpenOutput \/ DumpReport

Spec == Init /\ [][Next]_vars

\* the run has a well-formed document, and its entries
HasEntries ==
    /\ input.kind = "json"
    /\ "log" \in DOMAIN input.doc
    /\ "entries" \in DOMAIN input.doc["log"]
SourceEntries == input.doc["log"]["entries"]

\* the report the run wrote
Report == outfile.report
Written == pc = "done" /\ outfile.state = "complete"

\* the positions of the source entries whose URL the classifier accepts
KeptPositions ==
    { i \in 1..Len(SourceEntries) :
         MatchesSome(interesting_patterns, SourceEntries[i]["request"]["url"])
           /\ ~MatchesSome(noise_patterns, SourceEntries[i]["request"]["url"]) }

\* C2: when clean_har_file completes, the report's entries are exactly the
\* entries of log.entries with an interesting URL, in the original order: one
\* record per interesting entry, none for another, no reordering and no
\* deduplication of equal URLs.
C2_FilteredInOrder ==
    Written =>
        /\ Len(Report.entries) = Cardinality(KeptPositions)
        /\ \A j \in 1..Len(Report.entries) :
              /\ Report.entries[j]["startedDateTime"] \in KeptPositions
              /\ Report.entries[j]["url"]
                    = SourceEntries[Report.entries[j]["startedDateTime"]]["request"]["url"]
              /\ \A k \in 1..(j - 1) :
                    Report.entries[k]["startedDateTime"]
                       < Report.entries[j]["startedDateTime"]

\* a report with two records of the same URL, taken from around a dropped entry
C2_Witness ==
    /\ Written
    /\ Len(Report.entries) = 2
    /\ Len(SourceEntries) = 3
    /\ Report.entries[1]["url"] = Report.entries[2]["url"]
    /\ Report.entries[1]["startedDateTime"] = 1
    /\ Report.entries[2]["startedDateTime"] = 3

EmptyInput == HasEntries /\ SourceEntries = <<>>

\* C8: with zero original entries the run ends in the fatal condition of the
\* empty input (the division by zero of the ratio) and the output path is
\* never opened, created or truncated.
C8_EmptyInputNoOutput ==
    EmptyInput =>
        /\ outfile \in Untouched
        /\ pc \notin {"open", "dump", "done"}
        /\ pc = "fatal" => err = "ZeroDivisionError"

\* the empty input has aborted the run
C8_Witness ==
    /\ EmptyInput
    /\ pc = "fatal"
    /\ err = "ZeroDivisionError"
    /\ outfile \in Untouched

\* C9: after a run that ends in a fatal condition the output file is either
\* untouched or holds a complete report, never a truncated or half-written
\* one.
C9_NoPartialOutput ==
    pc = "fatal" => (outfile \in Untouched \/ outfile.state = "complete")

\* C10: in a written report total_entries is the length of entries,
\* original_entries the number of input entries, and reduction_ratio is
\* (1 - total/original) * 100 to one decimal place followed by %: 0 of 10
\* gives 100.0%, 10 of 10 gives 0.0%, 1 of 2 gives 50.0%; so
\* 0 <= total <= original and the ratio lies between 0.0% and 100.0%.
C10_Summary ==
    Written =>
        LET kept == Report.summary.total_entries
            original == Report.summary.original_entries
            ratio == Report.summary.reduction_ratio
        IN /\ kept = Len(Report.entries)
           /\ original = Len(SourceEntries)
           /\ 0 <= kept /\ kept <= original
           /\ \E t \in 0..1000 :
                 \* t tenths is a nearest tenth of 100 * (original - kept) / original
                 /\ 2 * t * original - 2000 * (original - kept) <= original
                 /\ 2000 * (original - kept) - 2 * t * original <= original
                 /\ ratio = NatChars(t \div 10) \o <<".">> \o NatChars(t % 10) \o <<"%">>
           /\ (kept = 0 /\ original = 10) => ratio = Chars("100.0%")
           /\ (kept = 10 /\ original = 10) => ratio = Chars("0.0%")
           /\ (kept = 1 /\ original = 2) => ratio = Chars("50.0%")

\* a report of ten entries, none kept
C10_Witness ==
    /\ Written
    /\ Report.summary.original_entries = 10
    /\ Report.summary.total_entries = 0
    /\ Report.summary.reduction_ratio = Chars("100.0%")

====
